---- MODULE Spec2Model ----
(* The Result sink of UGParameterEstimator (dataanalysis/result.py): the   *)
(* iteration history, the working record, the log, the run metadata and    *)
(* the pickle file the object is saved to.                                 *)
EXTENDS Integers, Sequences, FiniteSets, TLC

\* ------------------------------------------------------------------ bounds
\* Calls of addMetric, addEvaluations and commitIteration one Result receives
\* under Spec, under SpecDisk, and each of the two Results under SpecPair.
MaxOps == 4
DiskOps == 3
PairOps == 2
MaxLog == 1
MaxClock == 1

\* ------------------------------------------------------------------ values
\* The two Result variables of the client (tests/testOptimizer.py builds two).
Results == {1, 2}
\* Caller-owned value objects (numbers, arrays) and what they can hold.
Objs == {1, 2}
Vals == {0, 1}

MetricNames == {"residualnorm", "parameters", "evaluations"}
MetaNames == {"parametermanager"}
Tags == {"None", "target"}
Texts == {"msg"}

\* A Python value held in a dict or a tuple: nothing, a reference to a
\* caller-owned object, a privately owned object, or the privately owned list
\* that addEvaluations builds.
Absent == [k |-> "absent", o |-> 0, v |-> 0, l |-> <<>>]
Ref(o) == [k |-> "ref", o |-> o, v |-> 0, l |-> <<>>]
Val(v) == [k |-> "val", o |-> 0, v |-> v, l |-> <<>>]
List(l) == [k |-> "list", o |-> 0, v |-> 0, l |-> l]

\* What a value reads as, given the heap h of caller-owned objects.
ContentAtom(c, h) == IF c.k = "ref" THEN Val(h[c.o]) ELSE c
Content(c, h) ==
    IF c.k = "list"
    THEN List([i \in DOMAIN c.l |-> [c.l[i] EXCEPT !.ev = ContentAtom(@, h)]])
    ELSE ContentAtom(c, h)
ContentDict(d, h) == [n \in DOMAIN d |-> Content(d[n], h)]
ContentSeq(s, h) == [i \in DOMAIN s |-> ContentDict(s[i], h)]

\* copy.copy keeps the references.
ShallowCopy(c, h) == c
\* copy.deepcopy: a new private object with the content of the original.
DeepCopy(c, h) ==
    IF c.k = "ref" THEN Val(h[c.o])
    ELSE IF c.k = "list"
    THEN List([i \in DOMAIN c.l |->
                 [c.l[i] EXCEPT !.ev = IF @.k = "ref" THEN Val(h[@.o]) ELSE @]])
    ELSE c
DeepCopyDict(d, h) == [n \in DOMAIN d |-> DeepCopy(d[n], h)]

EmptyDict == [n \in MetricNames |-> Absent]
EmptyMeta == [n \in MetaNames |-> Absent]
Keys(d) == {n \in DOMAIN d : d[n].k # "absent"}

\* ------------------------------------------------------------------ file names
\* A file name is a sequence of characters; None is Python's None.
None == <<"None">>
BareName == <<"r">>
DirFile == <<"d", "/", "r">>
FilenameArgs == {BareName, DirFile}
SaveArgs == {None, DirFile}
Paths == {DirFile}

RECURSIVE RFind(_, _)
\* str.rfind("/"), 1-based; 0 when there is none.
RFind(p, i) == IF i = 0 THEN 0 ELSE IF p[i] = "/" THEN i ELSE RFind(p, i - 1)
RECURSIVE RStrip(_)
RStrip(p) == IF p # <<>> /\ p[Len(p)] = "/" THEN RStrip(SubSeq(p, 1, Len(p) - 1)) ELSE p
AllSlashes(p) == \A i \in DOMAIN p : p[i] = "/"
\* os.path.dirname (posixpath).
DirName(p) ==
    LET head == SubSeq(p, 1, RFind(p, Len(p)))
    IN IF head # <<>> /\ ~AllSlashes(head) THEN RStrip(head) ELSE head
\* os.makedirs(directory, exist_ok=True) raises FileNotFoundError for "".
MakedirsRaises(directory) == directory = <<>>
\* Python truth of the filename argument.
Truthy(fn) == fn # None /\ fn # <<>>

\* ------------------------------------------------------------------ state
Slots == {1, 2}

VARIABLES
    heap,              \* content of each caller-owned value object
    status,            \* per client variable: "none", "live", "raised"
    slot,              \* the Result object each client variable is bound to
    iterations,        \* self.iterations, per object
    logentries,        \* self.logentries
    currentIteration,  \* self.currentIteration
    metadata,          \* self.metadata
    filename,          \* self.filename
    disk,              \* the pickle files, by path
    logfile,           \* the "<filename>_log" files, by filename
    alive,             \* the process has not been interrupted
    now,               \* datetime.now()
    exc,               \* the exception the last call raised, or "none"
    writtenBy,         \* history: which call last wrote each pickle file
    trace,             \* history: the calls each object received
    expected,          \* history: the record each commit was asked to store
    snap               \* history: each committed record as read right after its commit

vars == <<heap, status, slot, iterations, logentries, currentIteration, metadata,
          filename, disk, logfile, alive, now, exc, writtenBy, trace, expected, snap>>
fields == <<iterations, logentries, currentIteration, metadata, filename>>
files == <<disk, logfile, writtenBy>>
history == <<trace, expected, snap>>

NoData == [iterations |-> <<>>, logentries |-> <<>>, currentIteration |-> EmptyDict,
           metadata |-> EmptyMeta, filename |-> None]
NoFile == [state |-> "absent", data |-> NoData]
PartialFile == [state |-> "partial", data |-> NoData]
LogPaths == {DirFile}

Init ==
    /\ heap = [o \in Objs |-> 0]
    /\ status = [r \in Results |-> "none"]
    /\ slot = [r \in Results |-> 0]
    /\ iterations = [s \in Slots |-> <<>>]
    /\ logentries = [s \in Slots |-> <<>>]
    /\ currentIteration = [s \in Slots |-> EmptyDict]
    /\ metadata = [s \in Slots |-> EmptyMeta]
    /\ filename = [s \in Slots |-> None]
    /\ disk = [p \in Paths |-> NoFile]
    /\ logfile = [p \in LogPaths |-> <<>>]
    /\ alive = TRUE
    /\ now = 0
    /\ exc = "none"
    /\ writtenBy = [p \in Paths |-> [op |-> "none", s |-> 0]]
    /\ trace = [s \in Slots |-> <<>>]
    /\ expected = [s \in Slots |-> <<>>]
    /\ snap = [s \in Slots |-> <<>>]

Live(r) == alive /\ status[r] = "live"
\* The Result r has received fewer than b calls that change its records.
Within(r, b) == status[r] = "live" /\ Len(trace[slot[r]]) < b
\* The Result r has logged fewer than b entries.
LogWithin(r, b) == status[r] = "live" /\ Len(logentries[slot[r]]) < b

\* iterationCount property.
iterationCount(s) == Len(iterations[s])

\* ------------------------------------------------------------------ history helpers
MetricEvent(name, o) == [op |-> "metric", name |-> name, obj |-> o, val |-> 0, tag |-> "None"]
EvalsEvent(o, tag) == [op |-> "evals", name |-> "evaluations", obj |-> o, val |-> heap[o], tag |-> tag]
CommitEvent == [op |-> "commit", name |-> "", obj |-> 0, val |-> 0, tag |-> "None"]

RECURSIVE LastCommit(_, _)
LastCommit(t, i) == IF i = 0 THEN 0 ELSE IF t[i].op = "commit" THEN i ELSE LastCommit(t, i - 1)
\* The calls received since the last commit.
Calls(t) == SubSeq(t, LastCommit(t, Len(t)) + 1, Len(t))

SelectEvents(c, op) == SelectSeq(c, LAMBDA e : e.op = op)
MetricCalls(c, n) == {i \in DOMAIN c : c[i].op = "metric" /\ c[i].name = n}
Max(S) == CHOOSE x \in S : \A y \in S : y <= x
\* What the record committed after the calls c, as commit number k (from 0),
\* is to hold: per name the object of the last addMetric call, as it reads
\* when the commit is made; otherwise the evaluation batches in call order.
ExpectedRecord(c, h, k) ==
    [n \in MetricNames |->
        IF MetricCalls(c, n) # {}
        THEN Val(h[c[Max(MetricCalls(c, n))].obj])
        ELSE IF n = "evaluations" /\ SelectEvents(c, "evals") # <<>>
        THEN LET ev == SelectEvents(c, "evals")
             IN List([i \in DOMAIN ev |-> [ev |-> Val(ev[i].val), tag |-> ev[i].tag, idx |-> k]])
        ELSE Absent]

\* ------------------------------------------------------------------ the code
\* Containers kept on the class: every Result would use the same ones.
NewObjectShared(r) == 1
\* A Result() call builds a new object; __init__ binds new containers to it.
NewObject(r) == r

\* A fresh dict holding the one metric.
SetMetricOnly(cur, name, value) == [EmptyDict EXCEPT ![name] = value]
\* self.currentIteration[name] = value
SetMetric(cur, name, value) == [cur EXCEPT ![name] = value]

\* The tuple with the number of the iteration after the current one.
EvalEntryNext(evaluations, tag, count, h) ==
    [ev |-> DeepCopy(evaluations, h), tag |-> tag, idx |-> count + 1]
\* The tuple addEvaluations appends: (copy.deepcopy(evaluations), tag, self.iterationCount).
EvalEntry(evaluations, tag, count, h) ==
    [ev |-> DeepCopy(evaluations, h), tag |-> tag, idx |-> count]

\* A history that keeps the latest record only.
AppendReplace(its, cur, h) == <<DeepCopyDict(cur, h)>>
\* self.iterations.append(copy.deepcopy(self.currentIteration))
AppendRecord(its, cur, h) == Append(its, DeepCopyDict(cur, h))

\* The working record left as it is.
KeepIteration(cur) == cur
\* self.currentIteration.clear()
ClearIteration(cur) == EmptyDict

\* A dump of the iterations alone.
PickleHistoryOnly(its, logs, cur, meta, fn, h) ==
    [iterations |-> ContentSeq(its, h), logentries |-> <<>>, currentIteration |-> EmptyDict,
     metadata |-> EmptyMeta, filename |-> fn]
\* pickle.dump(self.__dict__, f): the object's attributes, by content.
Pickle(its, logs, cur, meta, fn, h) ==
    [iterations |-> ContentSeq(its, h), logentries |-> logs,
     currentIteration |-> ContentDict(cur, h), metadata |-> ContentDict(meta, h),
     filename |-> fn]

\* The outcomes of save() on the file it names: the write completes; open()
\* raises; the dump raises after open() truncated the file; the process is
\* interrupted after open() truncated the file.
SaveOutcomes(target) ==
    IF target = None THEN {"ok"} ELSE {"ok", "openraise", "dumpraise", "killed"}

\* The file save(filename) of the object s writes to.
SaveTarget(s, arg) == IF arg = None THEN filename[s] ELSE arg

\* What save(filename) does to the files, the object's attributes being
\* (its, logs, cur, meta): open(filename, "wb") truncates the file, the dump
\* then writes the whole object.
WriteFile(s, arg, out, op, its, logs, cur, meta) ==
    LET target == SaveTarget(s, arg)
    IN IF out = "ok" /\ target # None
       THEN /\ disk' = [disk EXCEPT ![target] =
                           [state |-> "full",
                            data |-> Pickle(its, logs, cur, meta, filename[s], heap)]]
            /\ writtenBy' = [writtenBy EXCEPT ![target] = [op |-> op, s |-> s]]
       ELSE IF out \in {"dumpraise", "killed"}
       THEN /\ disk' = [disk EXCEPT ![target] = PartialFile]
            /\ writtenBy' = [writtenBy EXCEPT ![target] = [op |-> op, s |-> s]]
       ELSE UNCHANGED <<disk, writtenBy>>

\* The exception save() ends with.
SaveRaises(out) == IF out \in {"openraise", "dumpraise"} THEN "OSError" ELSE "none"

\* An interrupted process: what it held in memory is gone, the files stay.
Killed ==
    /\ alive' = FALSE
    /\ heap' = [o \in Objs |-> 0]
    /\ status' = [r \in Results |-> "none"]
    /\ slot' = [r \in Results |-> 0]
    /\ iterations' = [s \in Slots |-> <<>>]
    /\ logentries' = [s \in Slots |-> <<>>]
    /\ currentIteration' = [s \in Slots |-> EmptyDict]
    /\ metadata' = [s \in Slots |-> EmptyMeta]
    /\ filename' = [s \in Slots |-> None]
    /\ exc' = "none"
    /\ trace' = [s \in Slots |-> <<>>]
    /\ expected' = [s \in Slots |-> <<>>]
    /\ snap' = [s \in Slots |-> <<>>]

\* Result(filename)
Construct(r, fn) ==
    /\ alive
    /\ status[r] = "none"
    /\ IF Truthy(fn) /\ MakedirsRaises(DirName(fn))
       THEN /\ status' = [status EXCEPT ![r] = "raised"]
            /\ exc' = "FileNotFoundError"
            /\ UNCHANGED <<slot, fields>>
       ELSE LET s == NewObject(r)
            IN /\ status' = [status EXCEPT ![r] = "live"]
               /\ slot' = [slot EXCEPT ![r] = s]
               /\ iterations' = [iterations EXCEPT ![s] = <<>>]
               /\ logentries' = [logentries EXCEPT ![s] = <<>>]
               /\ currentIteration' = [currentIteration EXCEPT ![s] = EmptyDict]
               /\ metadata' = [metadata EXCEPT ![s] = EmptyMeta]
               /\ filename' = [filename EXCEPT ![s] = fn]
               /\ exc' = "none"
    /\ UNCHANGED <<heap, files, alive, now, history>>

\* addRunMetadata(name, value)
AddRunMetadata(r, name, o) ==
    /\ Live(r)
    /\ metadata' = [metadata EXCEPT ![slot[r]][name] = Ref(o)]
    /\ exc' = "none"
    /\ UNCHANGED <<heap, status, slot, iterations, logentries, currentIteration,
                   filename, files, alive, now, history>>

\* addMetric(name, value)
AddMetric(r, name, o) ==
    LET s == slot[r]
    IN /\ Live(r)
       /\ currentIteration' =
              [currentIteration EXCEPT ![s] = SetMetric(@, name, Ref(o))]
       /\ trace' = [trace EXCEPT ![s] = Append(@, MetricEvent(name, o))]
       /\ exc' = "none"
       /\ UNCHANGED <<heap, status, slot, iterations, logentries, metadata, filename,
                      files, alive, now, expected, snap>>

\* addEvaluations(evaluations, tag). The caller's values are numbers and
\* arrays: one stored under "evaluations" by addMetric has no append().
AddEvaluations(r, o, tag) ==
    LET s == slot[r]
        old == currentIteration[s]["evaluations"]
        lst == IF old.k = "absent" THEN List(<<>>) ELSE old
    IN /\ Live(r)
       /\ IF lst.k = "list"
          THEN /\ currentIteration' =
                      [currentIteration EXCEPT ![s]["evaluations"] =
                          List(Append(lst.l, EvalEntry(Ref(o), tag, iterationCount(s), heap)))]
               /\ exc' = "none"
          ELSE /\ exc' = "AttributeError"
               /\ UNCHANGED currentIteration
       /\ trace' = [trace EXCEPT ![s] = Append(@, EvalsEvent(o, tag))]
       /\ UNCHANGED <<heap, status, slot, iterations, logentries, metadata, filename,
                      files, alive, now, expected, snap>>

\* commitIteration()
CommitIteration(r, out) ==
    LET s == slot[r]
        its == AppendRecord(iterations[s], currentIteration[s], heap)
        cur == ClearIteration(currentIteration[s])
    IN /\ Live(r)
       /\ out \in SaveOutcomes(SaveTarget(s, None))
       /\ WriteFile(s, None, out, "commit", its, logentries[s], cur, metadata[s])
       /\ IF out = "killed"
          THEN Killed
          ELSE /\ iterations' = [iterations EXCEPT ![s] = its]
               /\ currentIteration' = [currentIteration EXCEPT ![s] = cur]
               /\ exc' = SaveRaises(out)
               /\ trace' = [trace EXCEPT ![s] = Append(@, CommitEvent)]
               /\ expected' = [expected EXCEPT ![s] =
                      Append(@, ExpectedRecord(Calls(trace[s]), heap, Len(expected[s])))]
               /\ snap' = [snap EXCEPT ![s] = Append(@, ContentDict(its[Len(its)], heap))]
               /\ UNCHANGED <<heap, status, slot, logentries, metadata, filename, alive>>
       /\ UNCHANGED <<logfile, now>>

\* save(filename=None)
Save(r, arg, out) ==
    LET s == slot[r]
    IN /\ Live(r)
       /\ out \in SaveOutcomes(SaveTarget(s, arg))
       /\ WriteFile(s, arg, out, "save", iterations[s], logentries[s],
                    currentIteration[s], metadata[s])
       /\ IF out = "killed"
          THEN Killed
          ELSE /\ exc' = SaveRaises(out)
               /\ UNCHANGED <<heap, status, slot, fields, alive, history>>
       /\ UNCHANGED <<logfile, now>>

\* log(text). The entry is appended before the log file is opened;
\* self.filename + "_log" raises TypeError when the filename is None.
Log(r, text, ok) ==
    LET s == slot[r]
        logtext == <<now, text>>
    IN /\ Live(r)
       /\ logentries' = [logentries EXCEPT ![s] = Append(@, logtext)]
       /\ IF filename[s] = None
          THEN /\ ok
               /\ exc' = "TypeError"
               /\ UNCHANGED logfile
          ELSE IF ok
          THEN /\ exc' = "none"
               /\ logfile' = [logfile EXCEPT ![filename[s]] = Append(@, logtext)]
          ELSE /\ exc' = "OSError"
               /\ UNCHANGED logfile
       /\ UNCHANGED <<heap, status, slot, iterations, currentIteration, metadata,
                      filename, disk, writtenBy, alive, now, history>>

\* __str__: the exception it raises on the attributes d, or "none". It
\* reads self.filename, self.metadata["parametermanager"] and the
\* "residualnorm" of the first and of the last iteration, in that order.
StrRaises(d) ==
    IF d.filename = None THEN "TypeError"
    ELSE IF d.metadata["parametermanager"].k = "absent" THEN "KeyError"
    ELSE IF Len(d.iterations) = 0 THEN "IndexError"
    ELSE IF d.iterations[1]["residualnorm"].k = "absent" THEN "KeyError"
    ELSE IF d.iterations[Len(d.iterations)]["residualnorm"].k = "absent" THEN "KeyError"
    ELSE "none"

\* Result.load(filename, printInfo), its result bound to the client variable
\* r: cls() builds the object, pickle.load fills its attributes, and
\* print(result) runs before the object is returned.
Load(r, path, printInfo) ==
    LET f == disk[path]
        s == NewObject(r)
        raised == IF f.state = "absent" THEN "FileNotFoundError"
                  ELSE IF f.state = "partial" THEN "EOFError"
                  ELSE IF printInfo THEN StrRaises(f.data)
                  ELSE "none"
    IN /\ alive
       /\ status[r] = "none"
       /\ exc' = raised
       /\ IF raised = "none"
          THEN /\ status' = [status EXCEPT ![r] = "live"]
               /\ slot' = [slot EXCEPT ![r] = s]
               /\ iterations' = [iterations EXCEPT ![s] = f.data.iterations]
               /\ logentries' = [logentries EXCEPT ![s] = f.data.logentries]
               /\ currentIteration' =
                      [currentIteration EXCEPT ![s] = f.data.currentIteration]
               /\ metadata' = [metadata EXCEPT ![s] = f.data.metadata]
               /\ filename' = [filename EXCEPT ![s] = f.data.filename]
          ELSE /\ status' = [status EXCEPT ![r] = "raised"]
               /\ UNCHANGED <<slot, fields>>
       /\ UNCHANGED <<heap, files, alive, now, history>>

\* ------------------------------------------------------------------ the environment
\* The caller changes one of its value objects in place.
Mutate(o, v) ==
    /\ alive
    /\ heap[o] # v
    /\ heap' = [heap EXCEPT ![o] = v]
    /\ UNCHANGED <<status, slot, fields, files, alive, now, exc, history>>

\* Wall-clock time passes.
Tick ==
    /\ alive
    /\ now' = now + 1
    /\ UNCHANGED <<heap, status, slot, fields, files, alive, exc, history>>

\* The process is interrupted between two calls.
Interrupt ==
    /\ alive
    /\ Killed
    /\ UNCHANGED <<files, now>>

\* ------------------------------------------------------------------ specifications
\* The working record and the history of one Result kept in memory only
\* (filename None), with a caller that changes its values in place.
Next ==
    \/ Construct(1, None)
    \/ \E n \in MetricNames, o \in Objs : Within(1, MaxOps) /\ AddMetric(1, n, o)
    \/ \E t \in Tags : Within(1, MaxOps) /\ AddEvaluations(1, 1, t)
    \/ Within(1, MaxOps) /\ CommitIteration(1, "ok")
    \/ \E o \in Objs, v \in Vals : Mutate(o, v)

Spec == Init /\ [][Next]_vars

\* One Result and its files: every operation, with the failures and the
\* interruptions of the file writes.
Outcomes == {"ok", "openraise", "dumpraise", "killed"}
NextDisk ==
    \/ \E fn \in FilenameArgs : Construct(1, fn)
    \/ \E n \in MetaNames : AddRunMetadata(1, n, 1)
    \/ Within(1, DiskOps) /\ AddMetric(1, "residualnorm", 1)
    \/ Within(1, DiskOps) /\ AddEvaluations(1, 2, "target")
    \/ \E out \in Outcomes : Within(1, DiskOps) /\ CommitIteration(1, out)
    \/ \E a \in SaveArgs, out \in Outcomes : Save(1, a, out)
    \/ \E t \in Texts, ok \in BOOLEAN : LogWithin(1, MaxLog) /\ Log(1, t, ok)
    \/ \E v \in Vals : Mutate(1, v)
    \/ Interrupt

SpecDisk == Init /\ [][NextDisk]_vars

\* Two Results built and used side by side, with the clock and the log()
\* calls of the first one (the two are handled alike).
NextPair ==
    \/ \E r \in Results : Construct(r, None)
    \/ \E r \in Results, o \in Objs : Within(r, PairOps) /\ AddMetric(r, "residualnorm", o)
    \/ \E r \in Results : Within(r, PairOps) /\ AddEvaluations(r, 1, "target")
    \/ \E r \in Results : Within(r, PairOps) /\ CommitIteration(r, "ok")
    \/ \E t \in Texts : LogWithin(1, MaxLog) /\ Log(1, t, TRUE)
    \/ now < MaxClock /\ Tick

\* The caller's values do not change during the two runs; objects 1 and 2
\* may hold equal or different values.
InitPair ==
    /\ heap \in {h \in [Objs -> Vals] : h[1] = 0}
    /\ status = [r \in Results |-> "none"]
    /\ slot = [r \in Results |-> 0]
    /\ iterations = [s \in Slots |-> <<>>]
    /\ logentries = [s \in Slots |-> <<>>]
    /\ currentIteration = [s \in Slots |-> EmptyDict]
    /\ metadata = [s \in Slots |-> EmptyMeta]
    /\ filename = [s \in Slots |-> None]
    /\ disk = [p \in Paths |-> NoFile]
    /\ logfile = [p \in LogPaths |-> <<>>]
    /\ alive = TRUE
    /\ now = 0
    /\ exc = "none"
    /\ writtenBy = [p \in Paths |-> [op |-> "none", s |-> 0]]
    /\ trace = [s \in Slots |-> <<>>]
    /\ expected = [s \in Slots |-> <<>>]
    /\ snap = [s \in Slots |-> <<>>]

SpecPair == InitPair /\ [][NextPair]_vars

\* One Result saved to its file, and the file loaded back into a second
\* client variable.
NextLoad ==
    \/ Construct(1, DirFile)
    \/ \E n \in MetaNames : AddRunMetadata(1, n, 1)
    \/ Within(1, DiskOps) /\ AddMetric(1, "residualnorm", 1)
    \/ Within(1, DiskOps) /\ AddEvaluations(1, 2, "target")
    \/ \E out \in Outcomes \ {"killed"} : Within(1, DiskOps) /\ CommitIteration(1, out)
    \/ \E out \in Outcomes \ {"killed"} : Save(1, None, out)
    \/ \E t \in Texts : LogWithin(1, MaxLog) /\ Log(1, t, TRUE)
    \/ \E v \in Vals : Mutate(1, v)
    \/ \E printInfo \in BOOLEAN : Load(2, DirFile, printInfo)

SpecLoad == Init /\ [][NextLoad]_vars

\* ------------------------------------------------------------------ claims
IsPrefix(a, b) == Len(a) <= Len(b) /\ \A i \in 1..Len(a) : a[i] = b[i]
\* The step is a commitIteration() of the object s that returned or raised.
CommitStep(s) == Len(expected'[s]) = Len(expected[s]) + 1
History(s) == ContentSeq(iterations[s], heap)

\* C1: commitIteration() appends exactly one record, equal to the working
\* record as it was at the call, keeps every earlier record in place, leaves
\* the working record empty and raises iterationCount by exactly 1.
C1_CommitAppendsWorkingRecord ==
    [][\A s \in Slots : CommitStep(s) =>
          /\ iterationCount(s)' = iterationCount(s) + 1
          /\ \A k \in 1..iterationCount(s) :
                 ContentDict(iterations'[s][k], heap') = ContentDict(iterations[s][k], heap)
          /\ ContentDict(iterations'[s][iterationCount(s) + 1], heap') =
                 ContentDict(currentIteration[s], heap)
          /\ Keys(currentIteration'[s]) = {}]_vars

\* A second commit has stored a record with content behind an earlier one.
C1_Witness ==
    /\ Len(iterations[1]) = 2
    /\ Len(expected[1]) = 2
    /\ Keys(iterations[1][1]) # {}
    /\ Keys(iterations[1][2]) # {}
    /\ Keys(currentIteration[1]) = {}

\* C2: a committed record reads, in every later state, as it read right
\* after its own commit, whatever is done to the working record and to the
\* objects that were passed to addMetric or addEvaluations.
C2_CommittedRecordsFrozen ==
    \A s \in Slots : \A k \in 1..Len(iterations[s]) :
        ContentDict(iterations[s][k], heap) = snap[s][k]

\* Object 1 was passed to addMetric, committed, and changed afterwards.
C2_Witness ==
    /\ Len(trace[1]) >= 2
    /\ trace[1][1] = MetricEvent("parameters", 1)
    /\ trace[1][2] = CommitEvent
    /\ snap[1][1]["parameters"] = Val(0)
    /\ heap[1] = 1
    /\ currentIteration[1]["parameters"] = Ref(1)

\* C3: across every operation that leaves the process running, the calls
\* that raise included, the history of the earlier state is a prefix of the
\* history of the later one.
C3_HistoryAppendOnly ==
    [][alive' => \A s \in Slots : IsPrefix(History(s), History(s)')]_vars

\* A commit whose save() raised kept both committed records.
C3_Witness ==
    /\ Len(iterations[1]) = 2
    /\ Keys(iterations[1][1]) # {}
    /\ exc = "OSError"
    /\ disk[DirFile].state = "partial"
    /\ writtenBy[DirFile].op = "commit"

\* What Result.load can recover from a file: nothing from a truncated or
\* partly written pickle.
Recoverable(f) == IF f.state = "full" THEN f.data.iterations ELSE <<>>

\* C4: an interruption of the process at any point leaves every iteration
\* that the result file held before the interrupted call recoverable from it.
C4_InterruptKeepsPersisted ==
    [][(alive /\ ~alive') =>
          \A p \in Paths : IsPrefix(Recoverable(disk[p]), Recoverable(disk'[p]))]_vars

\* C5 as claimed: no result file ever holds a partially filled working record.
C5_WorkingRecordNeverPersisted ==
    \A p \in Paths : disk[p].state = "full" => Keys(disk[p].data.currentIteration) = {}

NumCommits(t) == Len(SelectEvents(t, "commit"))
\* C5: the history, in memory and in every result file, holds committed
\* records only, one per commit, and a file written by commitIteration()
\* holds an empty working record; a file written by a direct save() holds the
\* working record as it was, under currentIteration.
C5_HistoryHoldsCommittedOnly ==
    alive =>
        /\ \A r \in Results : status[r] = "live" =>
               iterationCount(slot[r]) = NumCommits(trace[slot[r]])
        /\ \A p \in Paths : disk[p].state = "full" =>
               /\ IsPrefix(disk[p].data.iterations, snap[writtenBy[p].s])
               /\ Len(disk[p].data.iterations) <= NumCommits(trace[writtenBy[p].s])
               /\ writtenBy[p].op = "commit" => Keys(disk[p].data.currentIteration) = {}

\* save() was called after a commit and an addMetric, before the next commit.
C5_Witness ==
    /\ alive
    /\ disk[DirFile].state = "full"
    /\ writtenBy[DirFile].op = "save"
    /\ Len(disk[DirFile].data.iterations) = 1
    /\ disk[DirFile].data.currentIteration["residualnorm"].k = "val"
    /\ currentIteration[1]["residualnorm"].k = "ref"

\* C6: after a commitIteration() of a Result with a filename that returns
\* normally, the result file holds the state in memory at that moment: the
\* committed iterations with the new one, the metadata, the log entries and an
\* empty working record.
C6_CommitPersistsState ==
    [][\A s \in Slots : (CommitStep(s) /\ exc' = "none" /\ filename[s] # None) =>
          LET f == disk'[filename[s]]
          IN /\ f.state = "full"
             /\ f.data.iterations = History(s)'
             /\ Len(f.data.iterations) = iterationCount(s) + 1
             /\ f.data.logentries = logentries'[s]
             /\ f.data.metadata = ContentDict(metadata'[s], heap')
             /\ Keys(f.data.currentIteration) = {}
             /\ Keys(currentIteration'[s]) = {}]_vars

\* A commit has just persisted a record, a log entry and the metadata.
C6_Witness ==
    /\ exc = "none"
    /\ disk[DirFile].state = "full"
    /\ writtenBy[DirFile].op = "commit"
    /\ Len(disk[DirFile].data.iterations) = 1
    /\ Keys(disk[DirFile].data.iterations[1]) # {}
    /\ disk[DirFile].data.logentries # <<>>
    /\ Keys(disk[DirFile].data.metadata) # {}
    /\ disk[DirFile].data.iterations = History(1)

\* C7: constructing a Result with a filename never raises, a bare file name
\* with no directory part included.
C7_ConstructNeverRaises ==
    \A r \in Results : status[r] # "raised"

\* The calls an object received, each argument taken by what it holds.
Inputs(s) ==
    [i \in DOMAIN trace[s] |->
        [op |-> trace[s][i].op, name |-> trace[s][i].name, tag |-> trace[s][i].tag,
         val |-> IF trace[s][i].op = "commit" THEN 0 ELSE heap[trace[s][i].obj]]]
\* What the client reads through its variable r.
View(r) ==
    [iterations |-> iterations[slot[r]], currentIteration |-> currentIteration[slot[r]],
     metadata |-> metadata[slot[r]], logentries |-> logentries[slot[r]]]
BothLive == status[1] = "live" /\ status[2] = "live"

\* C8: two Results that received the same calls with equal arguments hold
\* equal histories, however their calls, the log() calls and the clock were
\* interleaved; and no step changes what both Results hold.
C8_SameInputsSameHistory ==
    /\ [](BothLive /\ Inputs(slot[1]) = Inputs(slot[2]) => History(slot[1]) = History(slot[2]))
    /\ [][BothLive /\ BothLive' => (View(1)' = View(1) \/ View(2)' = View(2))]_vars

\* Both Results committed the same metric, passed as two different objects
\* of equal content, with a log() call and a clock tick in between.
C8_Witness ==
    /\ BothLive
    /\ Inputs(slot[1]) = Inputs(slot[2])
    /\ Len(iterations[slot[1]]) = 1
    /\ Len(iterations[slot[2]]) = 1
    /\ iterations[slot[1]][1]["residualnorm"].k = "val"
    /\ trace[slot[1]][1].obj # trace[slot[2]][1].obj
    /\ logentries[slot[1]] # <<>>
    /\ now > 0

\* The step is an addMetric(name, o) call on the object s.
AddMetricStep(s, name, o) ==
    /\ Len(trace'[s]) = Len(trace[s]) + 1
    /\ trace'[s][Len(trace'[s])] = MetricEvent(name, o)

\* C9: the k-th committed record holds exactly the names passed to addMetric
\* (and "evaluations" if addEvaluations was called) since the commit before,
\* each metric under the object of the last addMetric call for its name; and
\* addMetric changes its own key of the working record and nothing else.
C9_NothingCarriesOver ==
    /\ [](\A s \in Slots : \A k \in 1..Len(iterations[s]) :
            /\ Len(expected[s]) = Len(iterations[s])
            /\ Keys(iterations[s][k]) = Keys(expected[s][k])
            /\ \A n \in MetricNames : expected[s][k][n].k = "val" =>
                   Content(iterations[s][k][n], heap) = expected[s][k][n])
    /\ [][\A s \in Slots : \A n \in MetricNames : \A o \in Objs :
            AddMetricStep(s, n, o) =>
                /\ currentIteration'[s][n] = Ref(o)
                /\ \A m \in MetricNames \ {n} :
                       currentIteration'[s][m] = currentIteration[s][m]
                /\ iterations' = iterations]_vars

\* A metric committed in the first record was not added again: the second
\* record holds only the metric added after the first commit.
C9_Witness ==
    /\ Len(iterations[1]) = 2
    /\ Keys(iterations[1][1]) = {"residualnorm"}
    /\ Keys(iterations[1][2]) = {"parameters"}
    /\ Keys(currentIteration[1]) = {}

NoEvaluationsMetric(t) ==
    \A i \in DOMAIN t : ~(t[i].op = "metric" /\ t[i].name = "evaluations")

\* C10: while no addMetric call has used the name "evaluations", the
\* "evaluations" list of committed record k holds, in call order, one entry
\* (copy of the batch, tag, k) per addEvaluations call made since the commit
\* before, and the working record holds those made since the last commit.
C10_EvaluationsCarryIteration ==
    \A s \in Slots : NoEvaluationsMetric(trace[s]) =>
        /\ \A k \in 1..Len(iterations[s]) :
               LET c == iterations[s][k]["evaluations"]
               IN /\ c.k \in {"absent", "list"}
                  /\ \A i \in DOMAIN c.l : c.l[i].idx = k - 1
                  /\ Content(c, heap) = expected[s][k]["evaluations"]
        /\ Content(currentIteration[s]["evaluations"], heap) =
               ExpectedRecord(Calls(trace[s]), heap, Len(expected[s]))["evaluations"]

\* The second record holds two batches with different tags, both under index 1.
C10_Witness ==
    /\ Len(iterations[1]) = 2
    /\ NoEvaluationsMetric(trace[1])
    /\ Len(iterations[1][2]["evaluations"].l) = 2
    /\ iterations[1][2]["evaluations"].l[1].tag = "target"
    /\ iterations[1][2]["evaluations"].l[2].tag = "None"
    /\ iterations[1][2]["evaluations"].l[2].idx = 1

\* The step is a Result.load call bound to the client variable r.
LoadStep(r) == status[r] = "none" /\ status'[r] # "none"
\* The object bound to r holds what the file f holds.
LoadedAs(r, f) ==
    /\ iterations'[slot'[r]] = f.data.iterations
    /\ currentIteration'[slot'[r]] = f.data.currentIteration
    /\ logentries'[slot'[r]] = f.data.logentries
    /\ metadata'[slot'[r]] = f.data.metadata
    /\ filename'[slot'[r]] = f.data.filename

\* C11: Result.load of a file written by save() of a Result with a filename
\* succeeds and returns a Result whose iterations, working record, log
\* entries, metadata and filename equal those saved, also for a Result with no
\* committed iteration or no "parametermanager" metadata.
C11_LoadReturnsSaved ==
    [][(LoadStep(2) /\ disk[DirFile].state = "full") =>
          /\ status'[2] = "live"
          /\ exc' = "none"
          /\ LoadedAs(2, disk[DirFile])]_vars

\* What load does: it returns the saved attributes, or the print of the
\* loaded object raises and nothing is returned.
LoadRestoresUnlessStrRaises ==
    [][(LoadStep(2) /\ disk[DirFile].state = "full") =>
          \/ /\ status'[2] = "live"
             /\ LoadedAs(2, disk[DirFile])
          \/ /\ status'[2] = "raised"
             /\ StrRaises(disk[DirFile].data) # "none"
             /\ exc' = StrRaises(disk[DirFile].data)]_vars

\* A file with a committed record, a log entry, a working record and the
\* metadata was loaded back with the print.
LoadedWithPrint ==
    /\ status[2] = "live"
    /\ disk[DirFile].state = "full"
    /\ StrRaises(disk[DirFile].data) = "none"
    /\ iterations[slot[2]] = disk[DirFile].data.iterations
    /\ Len(iterations[slot[2]]) = 1
    /\ logentries[slot[2]] # <<>>
    /\ metadata[slot[2]]["parametermanager"].k = "val"
    /\ filename[slot[2]] = DirFile

====
